---- MODULE Spec2Model ----
(***************************************************************************)
(* Model of src/search.tsx: the MCP stdio client behind the search command *)
(* (callMCPSearch, parseMCPResponse, parseSearchResults).                  *)
(*                                                                         *)
(* Text is a sequence of one-character strings.  A JSON-RPC message on the *)
(* wire is two characters, an id and a shape:                              *)
(*   id    "1" | "2"                                                       *)
(*   shape "R" result without content     "C" result with content[0].text  *)
(*         "E" error without message      "M" error with message           *)
(*         "B" both a result and an error (with message)                   *)
(* Anything else does not decode (JSON.parse throws).                      *)
(***************************************************************************)
EXTENDS Integers, Sequences, FiniteSets, TLC

VARIABLES
    query,                \* callMCPSearch's argument
    phase,                \* "idle" | "active" | "returned"
    spawns,               \* number of spawn() calls
    proc,                 \* "none" | "running" | "spawnfail" | "closed"
    errorDelivered,       \* the child's 'error' event has been dispatched
    timer,                \* responseTimeout: "unset" | "armed" | "fired" | "cleared"
    responseData,         \* stdout buffer (unterminated trailing fragment)
    errorData,            \* captured stderr text
    hasReceivedResponse,
    isInitialized,
    kills,                \* number of mcpProcess.kill() calls
    outcomes,             \* every resolve()/reject() call, in order
    stdinWrites,          \* requests written to mcpProcess.stdin, in order
    pending,              \* bytes the tool has written to stdout, not yet delivered
    received,             \* history: every stdout chunk delivered so far, concatenated
    splitSeen,            \* history: a chunk completed a line begun in an earlier chunk
    iterated,             \* history: the lines the stdout loop has visited
    trace,                \* history: decoded messages and stdin writes, in order
    errSeen,              \* history: error-carrying messages decoded while unsettled
    closeCode,            \* exit code passed to the close handler ("none" before)
    stdinThrows,          \* mcpProcess.stdin.write throws synchronously in this session
    content,              \* parser run: the payload text
    blocks,               \* parser run: the record blocks the payload was built from
    parsed,               \* parser run: parseSearchResults(content)
    parseDone,
    searchText,           \* Command: the searchText state
    cmdResults,           \* Command: the results state
    cmdError,             \* Command: the error state (<<>> for null, or a message)
    isLoading,            \* Command: the isLoading state
    inflight,             \* Command: the callMCPSearch promises still pending
    issued                \* Command: number of callMCPSearch calls made so far

vars == <<query, phase, spawns, proc, errorDelivered, timer, responseData,
          errorData, hasReceivedResponse, isInitialized, kills, outcomes,
          stdinWrites, pending, received, splitSeen, iterated, trace, errSeen, closeCode,
          stdinThrows,
          content, blocks, parsed, parseDone,
          searchText, cmdResults, cmdError, isLoading, inflight, issued>>

sessionVars == <<query, phase, spawns, proc, errorDelivered, timer, responseData,
          errorData, hasReceivedResponse, isInitialized, kills, outcomes,
          stdinWrites, pending, received, splitSeen, iterated, trace, errSeen, closeCode,
          stdinThrows>>

parserVars == <<content, blocks, parsed, parseDone>>

commandVars == <<searchText, cmdResults, cmdError, isLoading, inflight, issued>>

----------------------------------------------------------------------------
(* Bounds *)

MaxStream == 6      \* characters the tool writes to stdout in one session
MaxStderr == 1      \* stderr chunks captured in one session
MaxPre == 2         \* freely chosen blocks before the run of accepted blocks
MaxRun == 21        \* length of the run of accepted blocks
MaxSearches == 3    \* callMCPSearch calls made by one Command

(* Program constants *)

MaxResults == 20    \* results.slice(0, 20)
DocMaxResults == 10 \* README: "display up to 10 matching results"

----------------------------------------------------------------------------
(* Text helpers *)

NL == "\n"

Whitespace == {" ", NL}

RECURSIVE TrimStart(_)
TrimStart(s) ==
    IF s # <<>> /\ Head(s) \in Whitespace THEN TrimStart(Tail(s)) ELSE s

RECURSIVE TrimEnd(_)
TrimEnd(s) ==
    IF s # <<>> /\ s[Len(s)] \in Whitespace
    THEN TrimEnd(SubSeq(s, 1, Len(s) - 1)) ELSE s

\* String.prototype.trim
Trim(s) == TrimEnd(TrimStart(s))

\* the positions of the separator in s
SepPositions(s, sep) == {i \in 1..Len(s) : s[i] = sep}

\* the position of the k-th separator (0 for k = 0, Len(s) + 1 past the last)
SepAt(s, sep, k) ==
    IF k = 0 THEN 0
    ELSE IF k > Cardinality(SepPositions(s, sep)) THEN Len(s) + 1
    ELSE CHOOSE i \in SepPositions(s, sep) :
            Cardinality({j \in SepPositions(s, sep) : j < i}) = k - 1

\* String.prototype.split(sep): the pieces between separators, empty ones kept
Split(s, sep) ==
    [k \in 1..(Cardinality(SepPositions(s, sep)) + 1) |->
        SubSeq(s, SepAt(s, sep, k - 1) + 1, SepAt(s, sep, k) - 1)]

RECURSIVE Concat(_)
Concat(ss) == IF ss = <<>> THEN <<>> ELSE Head(ss) \o Concat(Tail(ss))

Take(s, n) == SubSeq(s, 1, IF Len(s) < n THEN Len(s) ELSE n)

----------------------------------------------------------------------------
(* Content parser: parseSearchResults.  Payload text is a sequence of      *)
(* atoms: "##", "-", "---", the field labels "URL:" ..., " ", NL and       *)
(* one-character text.                                                     *)

NoMatch == [ok |-> FALSE, cap |-> <<>>]

\* the tail \s*(.+)$ of the line regexes: greedy \s*, then at least one character
CaptureRest(rest) ==
    IF rest = <<>> THEN NoMatch
    ELSE IF TrimStart(rest) # <<>> THEN [ok |-> TRUE, cap |-> TrimStart(rest)]
    ELSE [ok |-> TRUE, cap |-> <<rest[Len(rest)]>>]

\* lines[0].match(/^##\s*(.+)$/)
MatchTitle(line) ==
    IF line # <<>> /\ Head(line) = "##" THEN CaptureRest(Tail(line)) ELSE NoMatch

\* line.match(/^-\s*<label>\s*(.+)$/)
MatchField(line, label) ==
    IF line # <<>> /\ Head(line) = "-"
       /\ TrimStart(Tail(line)) # <<>> /\ Head(TrimStart(Tail(line))) = label
    THEN CaptureRest(Tail(TrimStart(Tail(line))))
    ELSE NoMatch

SetIf(m, old) == IF m.ok THEN m.cap ELSE old

\* one pass of the loop over lines.slice(1)
ApplyFieldLine(rec, line) ==
    [rec EXCEPT !.url = SetIf(MatchField(line, "URL:"), @),
                !.repository = SetIf(MatchField(line, "Repository:"), @),
                !.type = SetIf(MatchField(line, "Type:"), @),
                !.state = SetIf(MatchField(line, "State:"), @),
                !.author = SetIf(MatchField(line, "Author:"), @),
                !.created_at = SetIf(MatchField(line, "Created at:"), @)]

RECURSIVE ApplyFieldLines(_, _, _)
ApplyFieldLines(rec, lines, i) ==
    IF i > Len(lines) THEN rec
    ELSE ApplyFieldLines(ApplyFieldLine(rec, lines[i]), lines, i + 1)

\* the record a section yields before the (url && title) test
SectionRecord(lines) ==
    ApplyFieldLines([title |-> MatchTitle(lines[1]).cap, url |-> <<>>,
                     repository |-> <<>>, type |-> <<"issue">>,
                     state |-> <<"open">>, author |-> <<>>,
                     created_at |-> <<>>], lines, 2)

\* the body of the loop over sections: the records the section pushes
SectionResults(section) ==
    LET lines == Split(Trim(section), NL) IN
    IF Len(lines) < 2 THEN <<>>
    ELSE IF ~MatchTitle(lines[1]).ok THEN <<>>
    ELSE IF SectionRecord(lines).url # <<>> /\ SectionRecord(lines).title # <<>>
         THEN <<SectionRecord(lines)>>
    ELSE <<>>

RECURSIVE CollectResults(_, _, _)
CollectResults(sections, i, results) ==
    IF i > Len(sections) THEN results
    ELSE IF Trim(sections[i]) = <<>> THEN CollectResults(sections, i + 1, results)
    ELSE CollectResults(sections, i + 1, results \o SectionResults(sections[i]))

parseSearchResultsNoSlice(text) == CollectResults(Split(text, "---"), 1, <<>>)

parseSearchResults(text) ==
    Take(CollectResults(Split(text, "---"), 1, <<>>), MaxResults)

----------------------------------------------------------------------------
(* Message codec *)

IdChars == {"1", "2"}
ShapeChars == {"R", "C", "E", "M", "B"}

\* JSON.parse(line) succeeds (surrounding whitespace is allowed by JSON)
Decodes(line) ==
    /\ Len(Trim(line)) = 2
    /\ Trim(line)[1] \in IdChars
    /\ Trim(line)[2] \in ShapeChars

\* the message envelope JSON.parse(line) returns
Decode(line) ==
    LET t == Trim(line) IN
    [id |-> IF t[1] = "1" THEN 1 ELSE 2,
     result |-> CASE t[2] = "C" -> "content"
                  [] t[2] \in {"R", "B"} -> "plain"
                  [] OTHER -> "none",
     error |-> CASE t[2] \in {"M", "B"} -> "msg"
                 [] t[2] = "E" -> "nomsg"
                 [] OTHER -> "none"]

\* response.result.content[0].text of a "C" message
SamplePayload == <<"##", " ", "a", NL, "-", " ", "URL:", " ", "u">>

\* message.error.message || "Unknown error"
ErrorText(m) == IF m.error = "msg" THEN "m" ELSE "Unknown error"

RECURSIVE FirstContentLine(_, _)
FirstContentLine(lines, i) ==
    IF i > Len(lines) THEN 0
    ELSE IF Trim(lines[i]) # <<>> /\ Decodes(lines[i])
            /\ Decode(lines[i]).result = "content" THEN i
    ELSE FirstContentLine(lines, i + 1)

\* parseMCPResponse: the first line carrying result.content decides; a line
\* that fails to decode, or whose error the inner throw reports, is swallowed
\* by the catch inside the loop, so the function never throws
parseMCPResponse(data) ==
    [threw |-> FALSE,
     results |-> IF FirstContentLine(Split(data, NL), 1) = 0 THEN <<>>
                 ELSE parseSearchResults(SamplePayload)]

----------------------------------------------------------------------------
(* callMCPSearch *)

Resolved(via, results) ==
    [kind |-> "resolve", via |-> via, err |-> "none", detail |-> <<>>,
     results |-> results]

Rejected(via, err, detail) ==
    [kind |-> "reject", via |-> via, err |-> err, detail |-> detail,
     results |-> <<>>]

\* clearTimeout(responseTimeout)
ClearTimeout(t) == IF t = "armed" THEN "cleared" ELSE t

Rx(m) == [ev |-> "rx", id |-> m.id, result |-> m.result, error |-> m.error,
          req |-> "none"]
Tx(req) == [ev |-> "tx", id |-> 0, result |-> "none", error |-> "none",
            req |-> req]

Queries == {<<>>, <<" ">>, <<" ", NL>>, <<"q">>, <<" ", "q">>}

\* responseData.split("\n") and lines.pop() || ""
FrameLinesDropRest(buf) ==
    [lines |-> SubSeq(Split(buf, NL), 1, Len(Split(buf, NL)) - 1),
     rest |-> <<>>]

FrameLines(buf) ==
    [lines |-> SubSeq(Split(buf, NL), 1, Len(Split(buf, NL)) - 1),
     rest |-> Split(buf, NL)[Len(Split(buf, NL))]]

\* message.id === 1 && message.result && !isInitialized
InitBranchAnyId(m, initialized) == m.result # "none" /\ ~initialized

InitBranchNoGuard(m, initialized) == m.id = 1 /\ m.result # "none"

InitBranch(m, initialized) ==
    m.id = 1 /\ m.result # "none" /\ ~initialized

\* message.id === 2 && message.result
SearchBranch(m) == m.id = 2 /\ m.result # "none"

ErrorBranchIdTwo(m) == m.id = 2 /\ m.error # "none"

\* message.error
ErrorBranch(m) == m.error # "none"

CatchParseErrorRejects(st) ==
    [st EXCEPT !.timer = ClearTimeout(@),
               !.outcomes = Append(@, Rejected("stdout", "parse-failure", <<>>))]

\* catch (parseError) { console.log(...) }: the line is skipped
CatchParseError(st) == st

\* the try block of the stdout loop for one decoded message; a write to a
\* throwing stdin lands in the catch block; stop = the handler returns
HandleMessage(st, m, line) ==
    LET s1 == [st EXCEPT !.trace = Append(@, Rx(m)),
                         !.errSeen =
                             IF m.error # "none" /\ st.outcomes = <<>>
                             THEN Append(@, [text |-> ErrorText(m),
                                             taken |-> InitBranch(m, st.isInitialized)
                                                       \/ SearchBranch(m)])
                             ELSE @]
    IN
    IF InitBranch(m, s1.isInitialized)
    THEN [st |-> IF st.stdinThrows
                 THEN CatchParseError([s1 EXCEPT !.isInitialized = TRUE])
                 ELSE [s1 EXCEPT !.isInitialized = TRUE,
                                 !.stdinWrites = @ \o <<"notifications/initialized",
                                                        "tools/call">>,
                                 !.trace = @ \o <<Tx("notifications/initialized"),
                                                  Tx("tools/call")>>],
          stop |-> FALSE]
    ELSE IF SearchBranch(m)
    THEN [st |-> [s1 EXCEPT !.hasReceivedResponse = TRUE,
                            !.timer = ClearTimeout(@),
                            !.kills = @ + 1,
                            !.outcomes =
                                IF parseMCPResponse(line).threw
                                THEN Append(@, Rejected("stdout", "parse-failure", <<>>))
                                ELSE Append(@, Resolved("stdout",
                                               parseMCPResponse(line).results))],
          stop |-> TRUE]
    ELSE IF ErrorBranch(m)
    THEN [st |-> [s1 EXCEPT !.timer = ClearTimeout(@),
                            !.kills = @ + 1,
                            !.outcomes = Append(@, Rejected("stdout", "mcp-error",
                                                            <<ErrorText(m)>>))],
          stop |-> TRUE]
    ELSE [st |-> s1, stop |-> FALSE]

\* for (const line of lines) { ... }
RECURSIVE RunLines(_, _, _)
RunLines(st, lines, i) ==
    IF i > Len(lines) THEN st
    ELSE LET s1 == [st EXCEPT !.iterated = Append(@, lines[i])] IN
         IF Trim(lines[i]) = <<>> THEN RunLines(s1, lines, i + 1)
         ELSE IF ~Decodes(lines[i])
              THEN RunLines(CatchParseError(s1), lines, i + 1)
         ELSE IF HandleMessage(s1, Decode(lines[i]), lines[i]).stop
              THEN HandleMessage(s1, Decode(lines[i]), lines[i]).st
         ELSE RunLines(HandleMessage(s1, Decode(lines[i]), lines[i]).st,
                       lines, i + 1)

\* the fields the stdout handler reads and writes
HandlerState ==
    [isInitialized |-> isInitialized, hasReceivedResponse |-> hasReceivedResponse,
     timer |-> timer, kills |-> kills, outcomes |-> outcomes,
     stdinWrites |-> stdinWrites, iterated |-> iterated, trace |-> trace,
     errSeen |-> errSeen, stdinThrows |-> stdinThrows]

IdleSession ==
    /\ phase = "idle" /\ spawns = 0 /\ proc = "none" /\ errorDelivered = FALSE
    /\ timer = "unset" /\ responseData = <<>> /\ errorData = <<>>
    /\ hasReceivedResponse = FALSE /\ isInitialized = FALSE /\ kills = 0
    /\ outcomes = <<>> /\ stdinWrites = <<>> /\ pending = <<>> /\ received = <<>>
    /\ splitSeen = FALSE
    /\ iterated = <<>> /\ trace = <<>> /\ errSeen = <<>> /\ closeCode = "none"
    /\ stdinThrows = FALSE

NoParserRun ==
    content = <<>> /\ blocks = <<>> /\ parsed = <<>> /\ parseDone = FALSE

IdleCommand ==
    /\ searchText = <<>> /\ cmdResults = <<>> /\ cmdError = <<>>
    /\ isLoading = FALSE /\ inflight = {} /\ issued = 0

Init == query \in Queries /\ IdleSession /\ NoParserRun /\ IdleCommand

EmptyQueryNoTrim(q) == q = <<>>

\* if (!query.trim()) return [];
EmptyQuery(q) == Trim(q) = <<>>

\* callMCPSearch(query) up to the registration of the close handler
Start ==
    /\ phase = "idle"
    /\ IF EmptyQuery(query)
       THEN /\ phase' = "returned"
            /\ outcomes' = <<Resolved("empty", <<>>)>>
            /\ UNCHANGED <<spawns, proc, timer, stdinWrites, trace, stdinThrows>>
       ELSE /\ phase' = "active"
            /\ spawns' = spawns + 1
            /\ proc' \in {"running", "spawnfail"}
            /\ \E writeThrows \in BOOLEAN :
                 /\ stdinThrows' = writeThrows
                 /\ IF writeThrows
                    THEN /\ timer' = "cleared"
                         /\ outcomes' = <<Rejected("write", "write-failure", <<>>)>>
                         /\ UNCHANGED <<stdinWrites, trace>>
                    ELSE /\ timer' = "armed"
                         /\ stdinWrites' = <<"initialize">>
                         /\ trace' = <<Tx("initialize")>>
                         /\ UNCHANGED outcomes
    /\ UNCHANGED <<query, errorDelivered, responseData, errorData,
                   hasReceivedResponse, isInitialized, kills, pending, received, splitSeen,
                   iterated, errSeen, closeCode>>
    /\ UNCHANGED <<parserVars, commandVars>>

\* the lines the tool may print
Vocabulary == {<<"1", "R">>, <<"2", "C">>, <<"2", "R">>, <<"1", "E">>,
               <<"2", "M">>, <<"1", "B">>, <<"x">>, <<>>}

\* a line is printed whole; the last one may lack its newline when the tool dies
Unterminated == {<<"2", "C">>, <<"2", "M">>}

Emissions == {l \o <<NL>> : l \in Vocabulary} \cup Unterminated

StreamLen == Len(received) + Len(pending)

\* the tool writes to its stdout
ToolWrites ==
    /\ phase = "active" /\ proc = "running"
    /\ \E text \in Emissions :
         /\ StreamLen + Len(text) <= MaxStream
         /\ pending' = pending \o text
    /\ UNCHANGED <<query, phase, spawns, proc, errorDelivered, timer,
                   responseData, errorData, hasReceivedResponse, isInitialized,
                   kills, outcomes, stdinWrites, received, splitSeen, iterated, trace,
                   errSeen, closeCode, stdinThrows>>
    /\ UNCHANGED <<parserVars, commandVars>>

\* mcpProcess.stdout.on("data", ...)
StdoutData ==
    /\ phase = "active" /\ proc = "running" /\ pending # <<>>
    /\ \E k \in 1..Len(pending) :
         LET chunk == SubSeq(pending, 1, k)
             fr == FrameLines(responseData \o chunk)
             st == RunLines(HandlerState, fr.lines, 1)
         IN /\ pending' = SubSeq(pending, k + 1, Len(pending))
            /\ received' = received \o chunk
            /\ splitSeen' = (splitSeen \/ (responseData # <<>> /\ fr.lines # <<>>))
            /\ responseData' = fr.rest
            /\ isInitialized' = st.isInitialized
            /\ hasReceivedResponse' = st.hasReceivedResponse
            /\ timer' = st.timer
            /\ kills' = st.kills
            /\ outcomes' = st.outcomes
            /\ stdinWrites' = st.stdinWrites
            /\ iterated' = st.iterated
            /\ trace' = st.trace
            /\ errSeen' = st.errSeen
    /\ UNCHANGED <<query, phase, spawns, proc, errorDelivered, errorData,
                   closeCode, stdinThrows>>
    /\ UNCHANGED <<parserVars, commandVars>>

\* mcpProcess.stderr.on("data", ...)
StderrData ==
    /\ phase = "active" /\ proc = "running"
    /\ Len(errorData) < MaxStderr
    /\ errorData' = Append(errorData, "s")
    /\ UNCHANGED <<query, phase, spawns, proc, errorDelivered, timer,
                   responseData, hasReceivedResponse, isInitialized, kills,
                   outcomes, stdinWrites, pending, received, splitSeen, iterated, trace,
                   errSeen, closeCode, stdinThrows>>
    /\ UNCHANGED <<parserVars, commandVars>>

TimerFiresWhenReceived ==
    /\ phase = "active" /\ timer = "armed" /\ proc # "spawnfail"
    /\ timer' = "fired"
    /\ IF hasReceivedResponse
       THEN /\ kills' = kills + 1
            /\ outcomes' = Append(outcomes, Rejected("timer", "timeout", <<>>))
       ELSE UNCHANGED <<kills, outcomes>>
    /\ UNCHANGED <<query, phase, spawns, proc, errorDelivered, responseData,
                   errorData, hasReceivedResponse, isInitialized, stdinWrites,
                   pending, received, splitSeen, iterated, trace, errSeen, closeCode, stdinThrows>>
    /\ UNCHANGED <<parserVars, commandVars>>

\* the setTimeout callback
TimerFires ==
    /\ phase = "active" /\ timer = "armed" /\ proc # "spawnfail"
    /\ timer' = "fired"
    /\ IF ~hasReceivedResponse
       THEN /\ kills' = kills + 1
            /\ outcomes' = Append(outcomes, Rejected("timer", "timeout", <<>>))
       ELSE UNCHANGED <<kills, outcomes>>
    /\ UNCHANGED <<query, phase, spawns, proc, errorDelivered, responseData,
                   errorData, hasReceivedResponse, isInitialized, stdinWrites,
                   pending, received, splitSeen, iterated, trace, errSeen, closeCode, stdinThrows>>
    /\ UNCHANGED <<parserVars, commandVars>>

\* mcpProcess.on("error", ...): the spawn failed
ProcessError ==
    /\ phase = "active" /\ proc = "spawnfail" /\ ~errorDelivered
    /\ errorDelivered' = TRUE
    /\ timer' = ClearTimeout(timer)
    /\ \E code \in {"ENOENT", "EACCES"} :
         outcomes' = Append(outcomes,
                            IF code = "ENOENT"
                            THEN Rejected("error", "not-found", <<>>)
                            ELSE Rejected("error", "spawn-failure", <<>>))
    /\ UNCHANGED <<query, phase, spawns, proc, responseData, errorData,
                   hasReceivedResponse, isInitialized, kills, stdinWrites,
                   pending, received, splitSeen, iterated, trace, errSeen, closeCode, stdinThrows>>
    /\ UNCHANGED <<parserVars, commandVars>>

\* exit codes: "0", a non-zero code, or null (ended by a signal)
CloseCodes == {"0", "1", "null"}

CloseOutcomeParseFirst(code, data, err) ==
    IF parseMCPResponse(data).results # <<>>
    THEN Resolved("close", parseMCPResponse(data).results)
    ELSE IF code # "0"
    THEN Rejected("close", "process-failure", <<code>> \o err)
    ELSE Resolved("close", <<>>)

CloseOutcomeNoStderr(code, data, err) ==
    IF code # "0"
    THEN Rejected("close", "process-failure", <<code>>)
    ELSE Resolved("close", parseMCPResponse(data).results)

\* what the close handler settles with when no response was received
CloseOutcome(code, data, err) ==
    IF code # "0"
    THEN Rejected("close", "process-failure", <<code>> \o err)
    ELSE IF parseMCPResponse(data).threw
    THEN Rejected("close", "parse-failure", <<>>)
    ELSE Resolved("close", parseMCPResponse(data).results)

\* mcpProcess.on("close", ...): the process is gone and its stdio has ended
Close ==
    /\ phase = "active"
    /\ \/ proc = "running" /\ pending = <<>>
       \/ proc = "spawnfail" /\ errorDelivered
    /\ \E code \in CloseCodes :
         /\ proc = "spawnfail" => code = "1"
         /\ closeCode' = code
         /\ outcomes' =
              IF hasReceivedResponse THEN outcomes
              ELSE Append(outcomes, CloseOutcome(code, responseData, errorData))
    /\ proc' = "closed"
    /\ timer' = ClearTimeout(timer)
    /\ UNCHANGED <<query, phase, spawns, errorDelivered, responseData, errorData,
                   hasReceivedResponse, isInitialized, kills, stdinWrites,
                   pending, received, splitSeen, iterated, trace, errSeen,
                   stdinThrows>>
    /\ UNCHANGED <<parserVars, commandVars>>

Next ==
    \/ Start
    \/ ToolWrites
    \/ StdoutData
    \/ StderrData
    \/ TimerFires
    \/ ProcessError
    \/ Close

Spec == Init /\ [][Next]_vars

\* the event loop runs a due callback: an armed setTimeout callback is
\* eventually called, and a failed spawn eventually emits its "error" event;
\* nothing obliges the tool to print, to be read, or to exit
Fairness == WF_vars(TimerFires) /\ WF_vars(ProcessError)

SpecLive == Init /\ [][Next]_vars /\ Fairness

----------------------------------------------------------------------------
(* Parser runs: payloads in the tool's documented layout, built from       *)
(* record-block descriptors, and one parseSearchResults call on each.      *)

BlockKinds == [heading : BOOLEAN, title : {<<"a">>, <<"b">>},
               url : {<<>>, <<"u">>}]

\* the i-th block of the run: a complete record, titles and URLs alternating
RunBlock(i) ==
    [heading |-> TRUE,
     title |-> IF i % 2 = 1 THEN <<"a">> ELSE <<"b">>,
     url |-> IF i % 3 = 0 THEN <<"v">> ELSE <<"u">>]

RECURSIVE SeqsUpTo(_, _)
SeqsUpTo(S, n) ==
    IF n = 0 THEN {<<>>}
    ELSE SeqsUpTo(S, n - 1)
         \cup {Append(q, x) : q \in {r \in SeqsUpTo(S, n - 1) : Len(r) = n - 1},
                              x \in S}

Payloads ==
    {pre \o [i \in 1..r |-> RunBlock(i)] :
        pre \in SeqsUpTo(BlockKinds, MaxPre), r \in 0..MaxRun}

\* "## <title>" then "- URL: <url>"; a block without URL has an Author line
RenderBlock(b) ==
    (IF b.heading THEN <<"##", " ">> ELSE <<>>) \o b.title \o <<NL>>
    \o (IF b.url # <<>> THEN <<"-", " ", "URL:", " ">> \o b.url \o <<NL>>
        ELSE <<"-", " ", "Author:", " ", "z", NL>>)

RECURSIVE RenderAll(_, _)
RenderAll(bs, i) ==
    IF i > Len(bs) THEN <<>>
    ELSE RenderBlock(bs[i])
         \o (IF i < Len(bs) THEN <<"---", NL>> ELSE <<>>)
         \o RenderAll(bs, i + 1)

InitParse ==
    /\ query = <<>> /\ IdleSession /\ IdleCommand
    /\ blocks \in Payloads
    /\ content = RenderAll(blocks, 1)
    /\ parsed = <<>> /\ parseDone = FALSE

\* one call parseSearchResults(content)
ParseContent ==
    /\ ~parseDone
    /\ parsed' = parseSearchResults(content)
    /\ parseDone' = TRUE
    /\ UNCHANGED <<content, blocks>>
    /\ UNCHANGED <<sessionVars, commandVars>>

NextParse == ParseContent

SpecParse == InitParse /\ [][NextParse]_vars

----------------------------------------------------------------------------
(* Parser runs on blocks with optional fields: a block has a "## <title>"  *)
(* heading ("full"), a heading without title ("bare") or a plain first     *)
(* line ("none"); each field line is present or absent (<<>>); a title or  *)
(* a URL may contain three hyphens.                                        *)

FieldBlocks ==
    [heading : {"full", "bare", "none"},
     title : {<<"a">>, <<"a", "---", "b">>},
     url : {<<>>, <<"u">>, <<"u", "---", "v">>},
     repository : {<<>>, <<"r">>},
     type : {<<>>, <<"pull_request">>},
     state : {<<>>, <<"closed">>},
     author : {<<>>, <<"z">>},
     created_at : {<<>>, <<"d">>}]

\* a complete record block
FullBlock ==
    [heading |-> "full", title |-> <<"f">>, url |-> <<"w">>,
     repository |-> <<"r">>, type |-> <<"issue">>, state |-> <<"open">>,
     author |-> <<"z">>, created_at |-> <<"d">>]

FieldPayloads ==
    {<<b>> : b \in FieldBlocks}
    \cup {<<b, FullBlock>> : b \in FieldBlocks}
    \cup {<<FullBlock, b>> : b \in FieldBlocks}

\* "- <label> <value>", or nothing when the field is absent
RenderField(label, value) ==
    IF value = <<>> THEN <<>> ELSE <<"-", " ", label, " ">> \o value \o <<NL>>

RenderFieldBlock(b) ==
    (CASE b.heading = "full" -> <<"##", " ">> \o b.title \o <<NL>>
       [] b.heading = "bare" -> <<"##", NL>>
       [] OTHER -> b.title \o <<NL>>)
    \o RenderField("URL:", b.url)
    \o RenderField("Repository:", b.repository)
    \o RenderField("Type:", b.type)
    \o RenderField("State:", b.state)
    \o RenderField("Author:", b.author)
    \o RenderField("Created at:", b.created_at)

RECURSIVE RenderFieldBlocks(_, _)
RenderFieldBlocks(bs, i) ==
    IF i > Len(bs) THEN <<>>
    ELSE RenderFieldBlock(bs[i])
         \o (IF i < Len(bs) THEN <<"---", NL>> ELSE <<>>)
         \o RenderFieldBlocks(bs, i + 1)

InitFields ==
    /\ query = <<>> /\ IdleSession /\ IdleCommand
    /\ blocks \in FieldPayloads
    /\ content = RenderFieldBlocks(blocks, 1)
    /\ parsed = <<>> /\ parseDone = FALSE

NextFields == ParseContent

SpecFields == InitFields /\ [][NextFields]_vars

----------------------------------------------------------------------------
(* Command: the search bar state and the useEffect on searchText.  A       *)
(* pending callMCPSearch promise is [n, query]; cmdError <<>> is null.      *)

SearchTexts == {<<>>, <<" ">>, <<"a">>, <<"b">>}

\* onSearchTextChange={setSearchText} and the effect it triggers
SearchTextChange ==
    /\ \E t \in SearchTexts :
         /\ t # searchText
         /\ searchText' = t
         /\ IF Trim(t) # <<>>
            THEN /\ issued < MaxSearches
                 /\ isLoading' = TRUE
                 /\ cmdError' = <<>>
                 /\ inflight' = inflight \cup {[n |-> issued + 1, query |-> t]}
                 /\ issued' = issued + 1
                 /\ UNCHANGED cmdResults
            ELSE /\ cmdResults' = <<>>
                 /\ cmdError' = <<>>
                 /\ isLoading' = FALSE
                 /\ UNCHANGED <<inflight, issued>>
    /\ UNCHANGED <<sessionVars, parserVars>>

\* .then((searchResults) => { setResults(searchResults); setIsLoading(false) })
SearchResolves ==
    /\ \E p \in inflight :
         /\ inflight' = inflight \ {p}
         /\ \E found \in {<<>>, <<p.query>>} : cmdResults' = found
         /\ isLoading' = FALSE
    /\ UNCHANGED <<searchText, cmdError, issued>>
    /\ UNCHANGED <<sessionVars, parserVars>>

\* .catch((err) => { setError(err.message); setResults([]); setIsLoading(false) })
SearchRejects ==
    /\ \E p \in inflight :
         /\ inflight' = inflight \ {p}
         /\ cmdError' = <<"failed">> \o p.query
         /\ cmdResults' = <<>>
         /\ isLoading' = FALSE
    /\ UNCHANGED <<searchText, issued>>
    /\ UNCHANGED <<sessionVars, parserVars>>

InitCommand == query = <<>> /\ IdleSession /\ NoParserRun /\ IdleCommand

NextCommand ==
    \/ SearchTextChange
    \/ SearchResolves
    \/ SearchRejects

SpecCommand == InitCommand /\ [][NextCommand]_vars

----------------------------------------------------------------------------
(* Claims *)

Settled == outcomes # <<>>

\* C1 (as claimed): resolve/reject is invoked at most once in a session.
C1_SettledOnce == Len(outcomes) <= 1

\* C2 (as claimed): mcpProcess.kill() is invoked at most once in a session.
C2_KillOnce == kills <= 1

\* C3: every tools/call write is preceded by the decoding of a message with
\* id 1 that carries a result.
C3_Sequencing ==
    \A i \in 1..Len(trace) :
        (trace[i].ev = "tx" /\ trace[i].req = "tools/call")
        => \E j \in 1..(i - 1) :
              trace[j].ev = "rx" /\ trace[j].id = 1 /\ trace[j].result # "none"

\* the tools/call request has been written
C3_Witness ==
    \E i \in 1..Len(stdinWrites) : stdinWrites[i] = "tools/call"

\* C4 (as claimed): once the deadline timer has fired, the outcome is the
\* timeout rejection and the process has been signalled exactly once,
\* whatever arrives afterwards.
C4_TimeoutKillsOnce ==
    timer = "fired" =>
        /\ outcomes # <<>>
        /\ outcomes[1] = Rejected("timer", "timeout", <<>>)
        /\ kills = 1

\* C5 (as claimed): a settled session has a cleared (or fired) timer and a
\* process that is gone or has been asked to terminate.
C5_SettledGuarantee ==
    Settled => /\ timer # "armed"
               /\ (proc = "running" => kills >= 1)

C7_ErrorAlwaysRejects ==
    \A i \in 1..Len(errSeen) :
        /\ Settled
        /\ outcomes[1] = Rejected("stdout", "mcp-error", <<errSeen[i].text>>)
        /\ kills >= 1

\* C7 (amended): an error-carrying message decoded before settlement that is
\* not taken by the initialize-response branch or the search-response branch
\* settles the session with the rejection carrying its text, and kills.
C7_ErrorRejectsUnlessTaken ==
    \A i \in 1..Len(errSeen) :
        ~errSeen[i].taken =>
            /\ Settled
            /\ outcomes[1] = Rejected("stdout", "mcp-error", <<errSeen[i].text>>)
            /\ kills >= 1

\* an error message with id 1 was rejected with the fallback text
C7_Witness ==
    \E i \in 1..Len(errSeen) :
        /\ ~errSeen[i].taken /\ errSeen[i].text = "Unknown error"
        /\ outcomes[1].err = "mcp-error"

AllBlank(q) == \A i \in 1..Len(q) : q[i] \in Whitespace

\* C8: a query that is empty or all whitespace resolves to the empty list,
\* with no spawn, no timer, no kill and no rejection.
C8_EmptyQuery ==
    (AllBlank(query) /\ phase # "idle")
    => /\ outcomes = <<Resolved("empty", <<>>)>>
       /\ spawns = 0 /\ proc = "none" /\ timer = "unset" /\ kills = 0

\* a whitespace-only query has returned
C8_Witness == query = <<" ", NL>> /\ phase = "returned"

\* C9: before settlement, the lines the stdout loop has visited, followed by
\* the buffered fragment, are the concatenation of all chunks split on newline.
C9_Framing ==
    (phase = "active" /\ ~Settled)
    => iterated \o <<responseData>> = Split(received, NL)

\* a line that arrived in two chunks was framed, and a fragment is buffered
C9_Witness ==
    /\ ~Settled /\ splitSeen /\ Len(iterated) >= 2 /\ responseData # <<>>

AcceptedBlock(b) == b.heading /\ b.url # <<>>

ExpectedRecord(b) ==
    [title |-> b.title, url |-> b.url, repository |-> <<>>,
     type |-> <<"issue">>, state |-> <<"open">>, author |-> <<>>,
     created_at |-> <<>>]

Min(a, b) == IF a < b THEN a ELSE b

\* C10: parseSearchResults returns exactly the first min(20, n) of the n
\* accepted record blocks of the payload, in payload order.
C10_CapAndOrder ==
    parseDone =>
        LET acc == SelectSeq(blocks, AcceptedBlock) IN
        /\ Len(parsed) = Min(MaxResults, Len(acc))
        /\ \A i \in 1..Len(parsed) : parsed[i] = ExpectedRecord(acc[i])

\* a payload with more than 20 accepted blocks has been parsed and cut
C10_Witness ==
    /\ parseDone
    /\ Len(SelectSeq(blocks, AcceptedBlock)) > MaxResults
    /\ Len(parsed) = MaxResults

\* the record the documented layout assigns to a block with optional fields
ExpectedFieldRecord(b) ==
    [title |-> b.title, url |-> b.url, repository |-> b.repository,
     type |-> IF b.type = <<>> THEN <<"issue">> ELSE b.type,
     state |-> IF b.state = <<>> THEN <<"open">> ELSE b.state,
     author |-> b.author, created_at |-> b.created_at]

HasTitleAndUrl(b) == b.heading = "full" /\ b.url # <<>>

RECURSIVE ExpectedFieldRecords(_, _)
ExpectedFieldRecords(bs, i) ==
    IF i > Len(bs) THEN <<>>
    ELSE (IF HasTitleAndUrl(bs[i]) THEN <<ExpectedFieldRecord(bs[i])>> ELSE <<>>)
         \o ExpectedFieldRecords(bs, i + 1)

\* C11 (as claimed): the records parseSearchResults emits are exactly the
\* blocks with a titled heading and a URL field, each with its fields as
\* given, an absent Repository, Author or Created at empty, an absent Type
\* "issue" and an absent State "open".
C11_AcceptanceAndDefaults ==
    parseDone => parsed = ExpectedFieldRecords(blocks, 1)

\* C12: a stdout chunk whose complete lines all fail to decode, delivered
\* before settlement, leaves the flags, the timer, the process and stdin
\* untouched: no resolve, no reject, no kill.
C12_NoiseIgnored ==
    [][(/\ received' # received
        /\ outcomes = <<>>
        /\ \A i \in (Len(iterated) + 1)..Len(iterated') : ~Decodes(iterated'[i]))
       => UNCHANGED <<isInitialized, hasReceivedResponse, timer, kills,
                      outcomes, proc, stdinWrites>>]_vars

\* an undecodable line was visited and the session is still unsettled
C12_Witness ==
    ~Settled /\ \E i \in 1..Len(iterated) : iterated[i] = <<"x">>

\* C13 (as claimed): at most 10 results reach the list the command renders.
C13_AtMostTen == parseDone => Len(parsed) <= DocMaxResults

\* C14: when the close handler settles the session with a non-zero exit code
\* and the buffer holds no parseable result, the outcome is the process-failure
\* rejection carrying that code and all stderr text captured.
C14_ProcessFailure ==
    (Settled /\ outcomes[1].via = "close" /\ closeCode = "1"
        /\ parseMCPResponse(responseData).results = <<>>)
    => outcomes[1] = Rejected("close", "process-failure", <<"1">> \o errorData)

\* the process failed after stderr text was captured
C14_Witness ==
    /\ Settled /\ outcomes[1].via = "close" /\ closeCode = "1"
    /\ errorData # <<>> /\ outcomes[1].err = "process-failure"

\* C15 (as claimed): while no id-1 result has been observed, the stdout
\* handler settles the session only for a message carrying an error field.
C15_StaysInitializing ==
    ~isInitialized =>
        \A i \in 1..Len(outcomes) :
            outcomes[i].via = "stdout" => outcomes[i].err = "mcp-error"

\* C16 (as claimed): the completion of a search that a later search has
\* superseded leaves the displayed results, error and loading flag unchanged.
C16_LateCompletionIgnored ==
    [][(\E p \in inflight : p \notin inflight' /\ p.n # issued)
       => UNCHANGED <<cmdResults, cmdError, isLoading>>]_vars

\* C17 (as claimed): when the close handler settles the session with exit
\* code 0 and the buffered output is a response with an error field and no
\* result, the outcome is the rejection carrying the protocol error.
C17_ResidualErrorRejects ==
    (/\ Settled /\ outcomes[1].via = "close" /\ closeCode = "0"
     /\ Decodes(responseData)
     /\ Decode(responseData).error # "none"
     /\ Decode(responseData).result = "none")
    => outcomes[1].kind = "reject" /\ outcomes[1].err = "mcp-error"

\* C19 (as claimed): when the stdout handler settles the session on a message
\* with id 2 whose result has no content, it rejects with the parse failure
\* and kills the process.
C19_ParseFailureRejects ==
    [][(/\ outcomes = <<>> /\ outcomes' # <<>>
        /\ outcomes'[1].via = "stdout"
        /\ trace'[Len(trace')].ev = "rx"
        /\ trace'[Len(trace')].id = 2
        /\ trace'[Len(trace')].result = "plain")
       => (/\ outcomes'[1] = Rejected("stdout", "parse-failure", <<>>)
           /\ kills' = kills + 1)]_vars

Handshake == <<"initialize", "notifications/initialized", "tools/call">>

\* C20: the writes to stdin are a prefix of initialize,
\* notifications/initialized, tools/call.
C20_HandshakeWrites ==
    \E n \in 0..Len(Handshake) : stdinWrites = SubSeq(Handshake, 1, n)

\* the id-1 result was decoded twice and the handshake was written once
C20_Witness ==
    /\ stdinWrites = Handshake
    /\ Cardinality({i \in 1..Len(trace) :
                       trace[i].ev = "rx" /\ trace[i].id = 1
                       /\ trace[i].result # "none"}) >= 2

HasDashes(text) == \E i \in 1..Len(text) : text[i] = "---"

\* C18 (as claimed): a block with a titled heading and a URL whose title or
\* URL contains three hyphens is emitted once, with its full title and fields.
C18_DashesInsideDoNotSplit ==
    parseDone =>
        \A i \in 1..Len(blocks) :
            (HasTitleAndUrl(blocks[i])
                /\ (HasDashes(blocks[i].title) \/ HasDashes(blocks[i].url)))
            => Cardinality({j \in 1..Len(parsed) :
                               parsed[j] = ExpectedFieldRecord(blocks[i])}) = 1

\* C21: a session that has been started is eventually settled, and the
\* deadline timer is never disarmed (cleared or fired) while the promise is
\* still pending, whatever the tool does: stay silent, print noise, exit,
\* fail to spawn, or answer only the initialize request.
C21_EventualSettlement ==
    /\ [](timer \in {"cleared", "fired"} => Settled)
    /\ (phase = "active") ~> Settled

\* the tool answered only the initialize request; the handshake was completed
\* and the deadline timer settled the session
C21_Witness ==
    /\ phase = "active" /\ timer = "fired" /\ isInitialized
    /\ stdinWrites = Handshake
    /\ outcomes = <<Rejected("timer", "timeout", <<>>)>>

====
